---- MODULE Spec2Model ----
(***************************************************************************)
(* PyRate stacking: a model of pyrate/core/stack.py.                       *)
(*                                                                         *)
(*   SpecPixel  one call of _stack_rate_by_pixel, stepped through its       *)
(*              while loop (one action per loop test / loop body).          *)
(*   Spec       one call of stack_rate: _stack_setup, the dispatch over     *)
(*              the three values of params[cf.PARALLEL], the max-sigma      *)
(*              masking and the return.                                     *)
(*   SpecMpi    one run of main of pyrate/nci/run_pyrate_pypar.py on        *)
(*              num_processors processes: the two barriers, the tiles of    *)
(*              each process, the send of each worker and the receive loop  *)
(*              of the master; one process may crash at any point.          *)
(*   SpecMpiLive  the same run when no process crashes, with weak fairness *)
(*              of the steps of each process.                               *)
(*                                                                         *)
(* Numbers.  The code computes in IEEE floating point.  The model computes *)
(* in exact rational arithmetic, [n |-> numerator, d |-> denominator], and *)
(* the inputs are drawn from integers for which every square root the code *)
(* takes on its way to a decision is the root of a perfect square (see      *)
(* ExactArithmetic).  A comparison of the code (a pivot against 0, a        *)
(* residual against nsig, an error against maxsig) between values that      *)
(* differ has the outcome the model computes; where the exact values        *)
(* coincide (a residual equal to nsig, two residuals tied for the maximum)  *)
(* the model compares the exact values, which the doubles of the code may   *)
(* miss by a rounding error.  The standard error, sqrt(1/x), is kept as     *)
(* the symbolic root of a rational when it is irrational.                   *)
(*                                                                         *)
(* Indices.  numpy counts layers, rows and columns from 0; the model counts *)
(* them from 1 (TLA+ sequences).                                            *)
(***************************************************************************)
EXTENDS Integers, Sequences, FiniteSets, TLC

(***************************************************************************)
(* Bounds of the model                                                     *)
(***************************************************************************)
\* number of interferograms (layers of the observation cube) of SpecPixel
NObs == 3
\* number of interferograms of Spec
NLayers == 2
\* the magnitude of the non-zero phase values of the inputs
MaxPhase == 8

\* the largest number of MPI processes of SpecMpi
MaxProcs == 3

\* the raster shapes <<rows, cols>> of Spec
Shapes == {<<1, 2>>, <<2, 1>>}
\* the raster shapes of SpecMpi
MpiShapes == {<<2, 2>>, <<3, 2>>}

(***************************************************************************)
(* Rational numbers                                                        *)
(***************************************************************************)
Abs(x) == IF x < 0 THEN -x ELSE x

RECURSIVE GCD(_, _)
GCD(a, b) == IF b = 0 THEN a ELSE GCD(b, a % b)

\* the rational n/d in lowest terms with a positive denominator (d # 0)
Rat(n, d) ==
    IF d = 1 THEN [n |-> n, d |-> 1]
    ELSE LET g == GCD(Abs(n), Abs(d))
             s == IF d < 0 THEN -1 ELSE 1
         IN  [n |-> s * (n \div g), d |-> s * (d \div g)]

RInt(x) == [n |-> x, d |-> 1]
RZero == RInt(0)
RAdd(a, b) == Rat(a.n * b.d + b.n * a.d, a.d * b.d)
RSub(a, b) == Rat(a.n * b.d - b.n * a.d, a.d * b.d)
RMul(a, b) == Rat(a.n * b.n, a.d * b.d)
RDiv(a, b) == Rat(a.n * b.d, a.d * b.n)
RAbs(a) == [n |-> Abs(a.n), d |-> a.d]
RGt(a, b) == a.n * b.d > b.n * a.d
RPos(a) == a.n > 0

\* the sum of f[i] over lo..hi
RECURSIVE RSum(_, _, _)
RSum(f, lo, hi) == IF lo > hi THEN RZero ELSE RAdd(f[lo], RSum(f, lo + 1, hi))

\* integer square root (the largest r with r*r <= x), x >= 0
RECURSIVE ISqrtFrom(_, _)
ISqrtFrom(x, r) == IF (r + 1) * (r + 1) > x THEN r ELSE ISqrtFrom(x, r + 1)
ISqrt(x) == ISqrtFrom(x, 0)
IsSquareInt(x) == x >= 0 /\ ISqrt(x) * ISqrt(x) = x
\* a rational in lowest terms is a square iff numerator and denominator are
RIsSquare(a) == IsSquareInt(a.n) /\ IsSquareInt(a.d)
RSqrt(a) == [n |-> ISqrt(a.n), d |-> ISqrt(a.d)]

(***************************************************************************)
(* Array values: what a cell of a float array holds                        *)
(*   k = "nan"    numpy.nan                                                *)
(*   k = "num"    the rational n/d                                         *)
(*   k = "sqrt"   the irrational sqrt(n/d)                                 *)
(*   k = "empty"  a cell of numpy.empty that was never assigned            *)
(* f32 is TRUE when the cell holds the float32 nearest to that real and    *)
(* the real is not a float32 itself (the cast changed the float64 value).  *)
(***************************************************************************)
NaN == [k |-> "nan", n |-> 0, d |-> 1, f32 |-> FALSE]
Empty == [k |-> "empty", n |-> 0, d |-> 1, f32 |-> FALSE]
Num(a) == [k |-> "num", n |-> a.n, d |-> a.d, f32 |-> FALSE]
Int2Val(x) == Num(RInt(x))
\* numpy.sqrt of a positive rational
SqrtVal(a) ==
    IF RIsSquare(a) THEN Num(RSqrt(a))
    ELSE [k |-> "sqrt", n |-> a.n, d |-> a.d, f32 |-> FALSE]
\* numpy.isnan
isnan(v) == v.k = "nan"
\* the rational held by a "num" cell
RatOf(v) == [n |-> v.n, d |-> v.d]

(***************************************************************************)
(* Linear algebra over the rationals.  A matrix of size k is a function    *)
(* [1..k -> [1..k -> rational]], M[i][j] its row i, column j; a vector is  *)
(* [1..k -> rational].                                                     *)
(***************************************************************************)
\* The vector f[1], .., f[k] as a tuple, and the matrix of rows M[1], .., M[k]
\* as a tuple of tuples: each entry is computed once, here.
RECURSIVE Vec(_, _)
Vec(f, k) == IF k = 0 THEN <<>> ELSE Append(Vec(f, k - 1), f[k])
Mat(M, k) == Vec([i \in 1..k |-> Vec(M[i], k)], k)

Dot(x, y, k) == RSum([i \in 1..k |-> RMul(x[i], y[i])], 1, k)
MatVec(M, x, k) == Vec([i \in 1..k |-> Dot(M[i], x, k)], k)
Transpose(M, k) == Mat([i \in 1..k |-> [j \in 1..k |-> M[j][i]]], k)

\* the tuple t without its position p
Without(t, p) == Vec([i \in 1..(Len(t) - 1) |-> IF i < p THEN t[i] ELSE t[i + 1]], Len(t) - 1)
Indices(k) == Vec([i \in 1..k |-> i], k)

\* Determinant of the submatrix of M on the rows rs and the columns cs (tuples of
\* equal length), by expansion along its first row; a zero entry contributes
\* nothing and its cofactor is not computed.
RECURSIVE DetSub(_, _, _)
DetSub(M, rs, cs) ==
    IF Len(rs) = 0 THEN RInt(1)
    ELSE IF Len(rs) = 1 THEN M[rs[1]][cs[1]]
    ELSE RSum([j \in 1..Len(cs) |->
                 IF M[rs[1]][cs[j]].n = 0 THEN RZero
                 ELSE RMul(RMul(RInt(IF j % 2 = 1 THEN 1 ELSE -1), M[rs[1]][cs[j]]),
                           DetSub(M, Tail(rs), Without(cs, j)))], 1, Len(cs))

Det(M, k) == DetSub(M, Indices(k), Indices(k))

\* scipy.linalg.inv: the inverse (the adjugate over the determinant),
\* LinAlgError (ok = FALSE) on a singular matrix
inv(M, k) ==
    LET det == Det(M, k)
        all == Indices(k)
    IN  IF det.n = 0 THEN [ok |-> FALSE, M |-> M]
        ELSE [ok |-> TRUE,
              M  |-> Mat([i \in 1..k |-> [j \in 1..k |->
                        RDiv(RMul(RInt(IF (i + j) % 2 = 0 THEN 1 ELSE -1),
                                  DetSub(M, Without(all, j), Without(all, i))), det)]], k)]

\* scipy.linalg.solve(M, x), given Mi = inv(M, k): the solution y of M y = x,
\* LinAlgError on a singular M
solve(Mi, x, k) ==
    IF Mi.ok THEN [ok |-> TRUE, x |-> MatVec(Mi.M, x, k)]
    ELSE [ok |-> FALSE, x |-> x]

\* The lower Cholesky factor L of M (M = L L^T) column by column, as LAPACK's
\* potrf computes it from the lower triangle of M; cols holds the columns
\* 1 .. j-1 of L, cols[c][i] = L[i][c].
\*   ok    FALSE: the pivot's radicand is not positive, LinAlgError
\*   exact FALSE: the radicand is positive and no perfect square, so its root
\*                is irrational and outside this arithmetic
RECURSIVE CholeskyFrom(_, _, _, _)
CholeskyFrom(M, k, j, cols) ==
    IF j > k THEN [ok |-> TRUE, exact |-> TRUE, L |-> Transpose(cols, k)]
    ELSE
      LET rad == RSub(M[j][j], RSum([c \in 1..(j - 1) |-> RMul(cols[c][j], cols[c][j])], 1, j - 1))
      IN  IF ~RPos(rad) THEN [ok |-> FALSE, exact |-> TRUE, L |-> M]
          ELSE IF ~RIsSquare(rad) THEN [ok |-> TRUE, exact |-> FALSE, L |-> M]
          ELSE
            LET piv == RSqrt(rad)
                below(i) == RDiv(RSub(M[i][j],
                                      RSum([c \in 1..(j - 1) |-> RMul(cols[c][i], cols[c][j])], 1, j - 1)),
                                 piv)
            IN  CholeskyFrom(M, k, j + 1,
                    Append(cols, Vec([i \in 1..k |->
                        IF i < j THEN RZero ELSE IF i = j THEN piv ELSE below(i)], k)))

\* scipy.linalg.cholesky(M, lower): lower = TRUE gives L with M = L L^T,
\* lower = FALSE (the default) gives U with M = U^T U, which is L^T for the
\* symmetric matrices of this model
cholesky(M, k, lower) ==
    LET Factor(c) == IF lower \/ ~c.ok \/ ~c.exact THEN c ELSE [c EXCEPT !.L = Transpose(c.L, k)]
    IN  Factor(CholeskyFrom(M, k, 1, <<>>))

\* Lines 156-160: Q, R, _ = qr(A, mode='economic', pivoting=True);
\* z = Q^H b; v = solve(R, z).  A has one column, so Q = A / R with
\* R = +-|A| (1 x 1), z = (A . b) / R and v = z / R = (A . b) / (A . A):
\* the irrational norm cancels.  solve raises LinAlgError when R = 0.
lstsq_qr(A, b, k) ==
    LET AA == Dot(A, A, k)
    IN  IF AA.n = 0 THEN [ok |-> FALSE, v |-> RZero]
        ELSE [ok |-> TRUE, v |-> RDiv(Dot(A, b, k), AA)]

\* numpy max / argmax of a non-empty vector: argmax is the first index holding
\* the maximum
RECURSIVE ArgMaxFrom(_, _, _, _)
ArgMaxFrom(x, k, i, best) ==
    IF i > k THEN best
    ELSE ArgMaxFrom(x, k, i + 1, IF RGt(x[i], x[best]) THEN i ELSE best)
argmax(x, k) == ArgMaxFrom(x, k, 2, 1)
max(x, k) == x[argmax(x, k)]

\* numpy.delete(ind, pos)
delete(ind, pos) ==
    Vec([i \in 1..(Len(ind) - 1) |-> IF i < pos THEN ind[i] ELSE ind[i + 1]], Len(ind) - 1)

\* numpy.nonzero(column)[0]: the indices of the truthy entries, ascending
RECURSIVE nonzero(_, _)
nonzero(column, n) ==
    IF n = 0 THEN <<>>
    ELSE IF column[n] THEN Append(nonzero(column, n - 1), n)
    ELSE nonzero(column, n - 1)

(***************************************************************************)
(* State                                                                   *)
(***************************************************************************)
VARIABLES
    \* the arguments of stack_rate
    ifgs,       \* sequence of layers [phase_data : [pixel -> value], time_span : Int]
    mst_arg,    \* the caller's mst: [none |-> TRUE], or [none |-> FALSE, a |-> the array]
    params,     \* [parallel, nsig, maxsig, pthresh]
    vcmt,       \* [layer -> [layer -> Int]]
    \* the frame of stack_rate
    pc,         \* "start", "serial", "rows", "pixels", "mask", "done", "raised", or "-"
    shape,      \* <<rows, cols>>
    parallel, maxsig, nsig, pthresh,
    obs,        \* [layer -> [pixel -> value]], NaN replaced by 0
    span,       \* [layer -> Int]
    mst,        \* [layer -> [pixel -> BOOLEAN]]
    rate, error, samples,   \* [pixel -> value]
    res,        \* results of the pool's tasks that have completed: [task -> result]
    unmasked,   \* history: rate, error and samples as they were before the masking
    \* the frame of one call of _stack_rate_by_pixel (SpecPixel)
    ppc,        \* "enter", "while", "returned", "raised", or "-"
    row, col,
    ind,        \* sequence of layer indices: the active set
    default_no_samples,
    ret,        \* [exc |-> None, triple |-> the returned triple], or [exc |-> the exception raised]
    \* history of that call
    iters,      \* number of times the loop body was entered
    ndecomp,    \* number of calls of cholesky at line 147
    hist,       \* one entry per pass of the body that reached line 176
    \* the run of main of run_pyrate_pypar.py (SpecMpi); shape is ifgs[0].shape
    num_processors, \* parallel.size
    eager,          \* TRUE: the MPI library buffers a send, which returns at once;
                    \* FALSE: a send returns when its message has been received
    mpc,            \* [rank -> position of the process]
    tiles,          \* [rank -> its top_lefts, bottom_rights, no_tiles]
    process_indices,    \* [rank -> sequence of tile indices]
    result_process, \* [rank -> its raster]
    result,         \* the master's result
    loop_i,         \* the master's loop variable i, line 112
    net,            \* the messages sent and not yet received
    barrier,        \* [line of the barrier -> the ranks that have called it]
    crashed,        \* the ranks that have crashed
    \* history of that run
    sent,           \* the messages sent, in order
    received        \* the receives completed, in order: [source, msg]

mpiVars == <<num_processors, eager, mpc, tiles, process_indices, result_process, result,
             loop_i, net, barrier, crashed, sent, received>>

stackRateVars == <<ifgs, mst_arg, params, vcmt, pc, parallel, maxsig, nsig, pthresh,
                   obs, span, mst, rate, error, samples, res, unmasked,
                   ppc, row, col, ind, default_no_samples, ret, iters, ndecomp, hist>>

vars == <<stackRateVars, shape, mpiVars>>

\* no run of main
MpiIdle ==
    /\ num_processors = 0 /\ eager = TRUE /\ mpc = <<>> /\ tiles = <<>>
    /\ process_indices = <<>> /\ result_process = <<>> /\ result = <<>> /\ loop_i = 0
    /\ net = {} /\ barrier = <<>> /\ crashed = {} /\ sent = <<>> /\ received = <<>>

stackVars == <<ifgs, mst_arg, params, pc, shape, parallel, maxsig,
               rate, error, samples, res, unmasked>>
pixelArgs == <<row, col, mst, nsig, obs, pthresh, span, vcmt>>

None == "None"
NoReturn == [exc |-> None, triple |-> <<>>]
NoMst == [none |-> TRUE, a |-> <<>>]
Pixels(shape_) == (1..shape_[1]) \X (1..shape_[2])

(***************************************************************************)
(* _stack_rate_by_pixel, lines 127-183                                     *)
(***************************************************************************)
\* a variant of LoopTest that lets the body run one observation short
LoopTestOffByOne(ind_, pthresh_) == Len(ind_) >= pthresh_ - 1

\* a variant of LoopTest with a strict comparison
LoopTestStrict(ind_, pthresh_) == Len(ind_) > pthresh_

\* line 135: the condition of the while loop
LoopTest(ind_, pthresh_) == Len(ind_) >= pthresh_

\* a variant of Exceeds that rejects at equality
ExceedsOrEquals(max_val, nsig_) == ~RGt(RInt(nsig_), max_val)

\* line 176: max_val > nsig
Exceeds(max_val, nsig_) == RGt(max_val, RInt(nsig_))

\* a variant of RejectPosition that takes the last position holding the maximum
RECURSIVE ArgMaxLastFrom(_, _, _, _)
ArgMaxLastFrom(x, k, i, best) ==
    IF i > k THEN best
    ELSE ArgMaxLastFrom(x, k, i + 1, IF RGt(x[best], x[i]) THEN best ELSE i)
RejectLastPosition(wr, k) == ArgMaxLastFrom(wr, k, 2, 1)

\* line 178: the position np.delete is given
RejectPosition(wr, k) == argmax(wr, k)

\* line 181: the triple of a converged pixel
ConvergedReturn(v, err, ifgv_len) == <<Num(v), err, ifgv_len>>

\* a variant of DummyReturn that counts the observations left
DummyReturnShrunken(ind_, default_no_samples_) == <<NaN, NaN, Len(ind_)>>

\* line 183: the triple of a pixel without an estimate
DummyReturn(ind_, default_no_samples_) == <<NaN, NaN, default_no_samples_>>

\* Lines 137-172 on the active set ind_: the estimate, or the exception raised.
\*   exc = "ValueError"   np.vstack of an empty ind (line 143)
\*   exc = "LinAlgError"  cholesky, solve or inv refuses the matrix
\*   exc = "Inexact"      a pivot is irrational: outside the model's arithmetic
\* Each step hands its values to the next one as parameters (read bottom up).
Estimate(ind_, row_, col_, obs_, span_, vcmt_) ==
    LET raise(e, k) == [exc |-> e, chol |-> (e # "ValueError"), v |-> RZero, err |-> NaN,
                        wr |-> <<>>, n |-> k]
        \* line 172: wr = abs(np.dot(w, r.transpose()))
        Line172(k, v, err, r, w) ==
            IF ~w.ok THEN raise("LinAlgError", k)
            ELSE IF ~w.exact THEN raise("Inexact", k)
            ELSE [exc |-> None, chol |-> TRUE, v |-> v, err |-> err,
                  wr |-> Vec([i \in 1..k |-> RAbs(Dot(w.L[i], r, k))], k), n |-> k]
        \* line 165: err = sqrt(diag(inv(err2))), err2 a 1 x 1 matrix (sqrt of a
        \* negative is nan); line 168: r = (B * v) - ifgv;
        \* line 171: w = cholesky(inv(vcm_temp))
        Line165(k, ifgv, B, v, vinv, err2) ==
            IF err2.n = 0 THEN raise("LinAlgError", k)
            ELSE Line172(k, v,
                         IF RPos(err2) THEN SqrtVal(RDiv(RInt(1), err2)) ELSE NaN,
                         Vec([i \in 1..k |-> RSub(RMul(B[i], v), ifgv[i])], k),
                         cholesky(vinv.M, k, FALSE))
        \* lines 163-164: err1 = inv(vcm_temp).dot(B^T); err2 = B.dot(err1)
        Line163(k, ifgv, B, ls, vinv) ==
            IF ~ls.ok \/ ~vinv.ok THEN raise("LinAlgError", k)
            ELSE Line165(k, ifgv, B, ls.v, vinv, Dot(B, MatVec(vinv.M, B, k), k))
        \* lines 156-160: v, by QR
        Line156(k, ifgv, B, vcm_temp, A, b) ==
            IF ~A.ok \/ ~b.ok THEN raise("LinAlgError", k)
            ELSE Line163(k, ifgv, B, lstsq_qr(A.x, b.x, k), inv(vcm_temp, k))
        \* lines 151-152: A = solve(T, B^T); b = solve(T, ifgv^T), which share
        \* the inverse of T
        Line151(k, ifgv, B, vcm_temp, Tinv) ==
            Line156(k, ifgv, B, vcm_temp, solve(Tinv, B, k), solve(Tinv, ifgv, k))
        Line148(k, ifgv, B, vcm_temp, T) ==
            IF ~T.ok THEN raise("LinAlgError", k)
            ELSE IF ~T.exact THEN raise("Inexact", k)
            ELSE Line151(k, ifgv, B, vcm_temp, inv(T.L, k))
        \* line 147: T = cholesky(vcm_temp, 1)
        Line147(k, ifgv, B, vcm_temp) == Line148(k, ifgv, B, vcm_temp, cholesky(vcm_temp, k, TRUE))
        \* line 137: ifgv = obs[ind, row, col]; line 140: B = span[:, ind];
        \* line 143: vcm_temp[a, b] = vcmt[ind[b], ind[a]]
        Line137(k) ==
            IF k = 0 THEN raise("ValueError", k)
            ELSE Line147(k,
                         Vec([i \in 1..k |-> RatOf(obs_[ind_[i]][<<row_, col_>>])], k),
                         Vec([i \in 1..k |-> RInt(span_[ind_[i]])], k),
                         Mat([a \in 1..k |-> [b \in 1..k |-> RInt(vcmt_[ind_[b]][ind_[a]])]], k))
    IN  Line137(Len(ind_))

\* lines 131-133
PixelEnter ==
    /\ ppc = "enter"
    /\ ind' = nonzero([k \in DOMAIN mst |-> mst[k][<<row, col>>]], Len(mst))
    /\ default_no_samples' = Len(ind')
    /\ ppc' = "while"
    /\ UNCHANGED <<stackVars, pixelArgs, ret, iters, ndecomp, hist>>
    /\ UNCHANGED mpiVars

\* lines 135-181: the loop test holds and the body runs once
PixelBody ==
    /\ ppc = "while"
    /\ LoopTest(ind, pthresh)
    /\ LET Decide(e, k) ==
             /\ iters' = iters + 1
             /\ ndecomp' = IF e.chol THEN ndecomp + 1 ELSE ndecomp
             /\ IF e.exc # None
                THEN /\ ppc' = "raised"
                     /\ ret' = [exc |-> e.exc, triple |-> <<>>]
                     /\ UNCHANGED <<ind, hist>>
                ELSE IF Exceeds(max(e.wr, k), nsig)
                THEN /\ ind' = delete(ind, RejectPosition(e.wr, k))
                     /\ hist' = Append(hist, [ind |-> ind, wr |-> e.wr, rejected |-> TRUE])
                     /\ UNCHANGED <<ppc, ret>>
                ELSE /\ ret' = [exc |-> None, triple |-> ConvergedReturn(e.v, e.err, k)]
                     /\ ppc' = "returned"
                     /\ hist' = Append(hist, [ind |-> ind, wr |-> e.wr, rejected |-> FALSE])
                     /\ UNCHANGED ind
       IN  Decide(Estimate(ind, row, col, obs, span, vcmt), Len(ind))
    /\ UNCHANGED <<stackVars, pixelArgs, default_no_samples>>
    /\ UNCHANGED mpiVars

\* lines 135 and 183: the loop test fails
PixelDummy ==
    /\ ppc = "while"
    /\ ~LoopTest(ind, pthresh)
    /\ ret' = [exc |-> None, triple |-> DummyReturn(ind, default_no_samples)]
    /\ ppc' = "returned"
    /\ UNCHANGED <<stackVars, pixelArgs, ind, default_no_samples, iters, ndecomp, hist>>
    /\ UNCHANGED mpiVars

\* The whole call, lines 127-183, as the actions above step through it:
\* [exc |-> None, triple |-> the returned triple], or the exception raised.
RECURSIVE PixelLoop(_, _, _, _, _, _, _, _, _)
PixelLoop(ind_, default_, row_, col_, nsig_, obs_, pthresh_, span_, vcmt_) ==
    LET Decide(e, k) ==
            IF e.exc # None THEN [exc |-> e.exc, triple |-> <<>>]
            ELSE IF Exceeds(max(e.wr, k), nsig_)
            THEN PixelLoop(delete(ind_, RejectPosition(e.wr, k)), default_,
                           row_, col_, nsig_, obs_, pthresh_, span_, vcmt_)
            ELSE [exc |-> None, triple |-> ConvergedReturn(e.v, e.err, k)]
    IN  IF ~LoopTest(ind_, pthresh_)
        THEN [exc |-> None, triple |-> DummyReturn(ind_, default_)]
        ELSE Decide(Estimate(ind_, row_, col_, obs_, span_, vcmt_), Len(ind_))

\* a variant of stack_rate_by_pixel that takes the mask of the first row: mst[:, 0, col]
stack_rate_by_pixel_row0(row_, col_, mst_, nsig_, obs_, pthresh_, span_, vcmt_) ==
    LET From(ind0) == PixelLoop(ind0, Len(ind0), row_, col_, nsig_, obs_, pthresh_, span_, vcmt_)
    IN  From(nonzero([k \in DOMAIN mst_ |-> mst_[k][<<1, col_>>]], Len(mst_)))

stack_rate_by_pixel(row_, col_, mst_, nsig_, obs_, pthresh_, span_, vcmt_) ==
    LET From(ind0) == PixelLoop(ind0, Len(ind0), row_, col_, nsig_, obs_, pthresh_, span_, vcmt_)
    IN  From(nonzero([k \in DOMAIN mst_ |-> mst_[k][<<row_, col_>>]], Len(mst_)))

(***************************************************************************)
(* The inputs                                                              *)
(***************************************************************************)
\* time spans: all 1, or 1, 2, .. n
SpanVectors(n) == {[k \in 1..n |-> 1], [k \in 1..n |-> k]}

\* Temporal VCMs of n layers: the identity; variance 4 on the first layer; and
\* layers 1 and 2 fully correlated (covariance 1, variances 1), which no
\* submatrix holding both survives cholesky.
VcmIdentity(n) == [i \in 1..n |-> [j \in 1..n |-> IF i = j THEN 1 ELSE 0]]
VcmHetero(n) == [i \in 1..n |-> [j \in 1..n |-> IF i = j THEN (IF i = 1 THEN 4 ELSE 1) ELSE 0]]
VcmCorrelated(n) ==
    [i \in 1..n |-> [j \in 1..n |-> IF i = j \/ {i, j} = {1, 2} THEN 1 ELSE 0]]
Vcms(n) == {VcmIdentity(n), VcmHetero(n), VcmCorrelated(n)}

\* n-sigma thresholds
NSigs == {3, 4}
\* observed phases of SpecPixel (obs holds no NaN)
ObsValues == {-MaxPhase, 0, MaxPhase}


InitPixel ==
    /\ shape = <<1, 1>>
    /\ row = 1 /\ col = 1
    /\ mst \in [1..NObs -> [Pixels(shape) -> BOOLEAN]]
    /\ obs \in [1..NObs -> [Pixels(shape) -> {Int2Val(x) : x \in ObsValues}]]
    \* a layer the mask leaves out is a missing observation, which obs holds as 0
    /\ \A k \in 1..NObs : ~mst[k][<<1, 1>>] => obs[k][<<1, 1>>] = Int2Val(0)
    /\ span \in SpanVectors(NObs)
    /\ vcmt \in Vcms(NObs)
    /\ nsig \in NSigs
    /\ pthresh \in 0..(NObs + 1)
    /\ ppc = "enter"
    /\ ind = <<>> /\ default_no_samples = 0 /\ ret = NoReturn
    /\ iters = 0 /\ ndecomp = 0 /\ hist = <<>>
    /\ ifgs = <<>> /\ mst_arg = NoMst /\ params = <<>>
    /\ pc = "-" /\ parallel = 0 /\ maxsig = 0
    /\ rate = <<>> /\ error = <<>> /\ samples = <<>> /\ res = <<>> /\ unmasked = <<>>
    /\ MpiIdle

(***************************************************************************)
(* float32.  A float64 that is a dyadic rational of this size is a float32 *)
(* too and the cast keeps it; any other value is moved to its float32      *)
(* neighbour.                                                              *)
(***************************************************************************)
RECURSIVE IsPow2(_)
IsPow2(d) == d = 1 \/ (d % 2 = 0 /\ IsPow2(d \div 2))
IsFloat32(v) == v.f32 \/ v.k \in {"nan", "empty"} \/ (v.k = "num" /\ IsPow2(v.d))
ToFloat32(v) == IF IsFloat32(v) THEN v ELSE [v EXCEPT !.f32 = TRUE]

\* v > m for a cell v that is not NaN and an integer m.  A float32 neighbour
\* compares as its real does: the reals of this model differ from every
\* threshold by far more than a rounding error, or not at all.
GtVal(v, m) ==
    IF v.k = "num" THEN RGt(RatOf(v), RInt(m))
    ELSE IF v.k = "sqrt" THEN (m < 0 \/ RGt(RatOf(v), RInt(m * m)))
    ELSE FALSE

(***************************************************************************)
(* _stack_setup, lines 86-114                                              *)
(***************************************************************************)
\* line 102: np.where(isnan(x.phase_data), 0, x.phase_data) for each layer
ZeroFilled(ifgs_) ==
    [k \in DOMAIN ifgs_ |-> [p \in DOMAIN ifgs_[k].phase_data |->
        IF isnan(ifgs_[k].phase_data[p]) THEN Int2Val(0) ELSE ifgs_[k].phase_data[p]]]

\* line 106: mst = ~isnan(obs)
DefaultMst(obs_) == [k \in DOMAIN obs_ |-> [p \in DOMAIN obs_[k] |-> ~isnan(obs_[k][p])]]

\* a variant of UpdatedMst that clears the mask where the phase of the layer is NaN
UpdatedMstByPhase(mst_, obs_) ==
    [k \in DOMAIN mst_ |-> [p \in DOMAIN mst_[k] |->
        IF isnan(ifgs[k].phase_data[p]) THEN FALSE ELSE mst_[k][p]]]

\* line 108: mst[isnan(obs)] = 0
UpdatedMst(mst_, obs_) ==
    [k \in DOMAIN mst_ |-> [p \in DOMAIN mst_[k] |->
        IF isnan(obs_[k][p]) THEN FALSE ELSE mst_[k][p]]]

EmptyRaster(shape_) == [p \in Pixels(shape_) |-> Empty]

\* a variant of Dispatch that goes on to the masking at once
DispatchNone(parallel_) == "mask"

\* lines 52, 61 and 70: the branch stack_rate takes
Dispatch(parallel_) ==
    IF parallel_ = 1 THEN "rows" ELSE IF parallel_ = 2 THEN "pixels" ELSE "serial"

\* line 48 and lines 86-114
StackSetup ==
    /\ pc = "start"
    /\ parallel' = params.parallel
    /\ nsig' = params.nsig
    /\ maxsig' = params.maxsig
    /\ pthresh' = params.pthresh
    /\ shape' = ifgs[1].shape
    /\ obs' = ZeroFilled(ifgs)
    /\ span' = [k \in DOMAIN ifgs |-> ifgs[k].time_span]
    /\ mst' = IF mst_arg.none THEN DefaultMst(obs') ELSE UpdatedMst(mst_arg.a, obs')
    \* line 108 assigns into the caller's array
    /\ mst_arg' = IF mst_arg.none THEN mst_arg ELSE [mst_arg EXCEPT !.a = mst']
    /\ error' = EmptyRaster(shape')
    /\ rate' = EmptyRaster(shape')
    /\ samples' = EmptyRaster(shape')
    /\ row' = 1 /\ col' = 1
    /\ pc' = Dispatch(parallel')
    /\ UNCHANGED <<ifgs, params, vcmt, res, unmasked, ppc, ind, default_no_samples,
                   ret, iters, ndecomp, hist>>
    /\ UNCHANGED mpiVars

(***************************************************************************)
(* stack_rate, lines 50-83                                                 *)
(***************************************************************************)
\* lines 71-73: one pass of the inner loop; the cells are float32
SerialPixel ==
    /\ pc = "serial"
    /\ LET Assign(r, p) ==
             IF r.exc # None
             THEN /\ pc' = "raised"
                  /\ ret' = r
                  /\ UNCHANGED <<rate, error, samples, row, col>>
             ELSE /\ rate' = [rate EXCEPT ![p] = ToFloat32(r.triple[1])]
                  /\ error' = [error EXCEPT ![p] = ToFloat32(r.triple[2])]
                  /\ samples' = [samples EXCEPT ![p] = ToFloat32(Int2Val(r.triple[3]))]
                  /\ IF col < shape[2] THEN /\ col' = col + 1
                                            /\ UNCHANGED <<row, pc>>
                     ELSE IF row < shape[1] THEN /\ row' = row + 1
                                                 /\ col' = 1
                                                 /\ UNCHANGED pc
                     ELSE /\ pc' = "mask"
                          /\ UNCHANGED <<row, col>>
                  /\ UNCHANGED ret
       IN  Assign(stack_rate_by_pixel(row, col, mst, nsig, obs, pthresh, span, vcmt), <<row, col>>)
    /\ UNCHANGED <<ifgs, mst_arg, params, vcmt, shape, parallel, maxsig, nsig, pthresh,
                   obs, span, mst, res, unmasked, ppc, ind, default_no_samples,
                   iters, ndecomp, hist>>
    /\ UNCHANGED mpiVars

\* _stack_rate_by_rows, lines 117-124: the pixels of one row, into a float32
\* array of shape (cols, 3); the first exception ends it
RECURSIVE RowFrom(_, _, _, _, _, _, _, _, _, _)
RowFrom(c, acc, row_, cols_, mst_, nsig_, obs_, pthresh_, span_, vcmt_) ==
    IF c > cols_ THEN [exc |-> None, val |-> acc]
    ELSE LET Store(r) ==
                 IF r.exc # None THEN [exc |-> r.exc, val |-> <<>>]
                 ELSE RowFrom(c + 1,
                              Append(acc, <<ToFloat32(r.triple[1]), ToFloat32(r.triple[2]),
                                            ToFloat32(Int2Val(r.triple[3]))>>),
                              row_, cols_, mst_, nsig_, obs_, pthresh_, span_, vcmt_)
         IN  Store(stack_rate_by_pixel(row_, c, mst_, nsig_, obs_, pthresh_, span_, vcmt_))

stack_rate_by_rows(row_, cols_, mst_, nsig_, obs_, pthresh_, span_, vcmt_) ==
    RowFrom(1, <<>>, row_, cols_, mst_, nsig_, obs_, pthresh_, span_, vcmt_)

\* lines 54-56: the pool runs the task of row r
RowTask(r) ==
    /\ pc = "rows"
    /\ r \notin DOMAIN res
    /\ res' = res @@ (r :> stack_rate_by_rows(r, shape[2], mst, nsig, obs, pthresh, span, vcmt))
    /\ UNCHANGED <<ifgs, mst_arg, params, vcmt, pc, shape, parallel, maxsig, nsig, pthresh,
                   obs, span, mst, rate, error, samples, unmasked, ppc, row, col, ind,
                   default_no_samples, ret, iters, ndecomp, hist>>
    /\ UNCHANGED mpiVars

\* lines 57-60: res[:, :, 0], res[:, :, 1], res[:, :, 2]
RowsAssemble ==
    /\ pc = "rows"
    /\ DOMAIN res = 1..shape[1]
    /\ \A r \in DOMAIN res : res[r].exc = None
    /\ rate' = [p \in Pixels(shape) |-> res[p[1]].val[p[2]][1]]
    /\ error' = [p \in Pixels(shape) |-> res[p[1]].val[p[2]][2]]
    /\ samples' = [p \in Pixels(shape) |-> res[p[1]].val[p[2]][3]]
    /\ pc' = "mask"
    /\ UNCHANGED <<ifgs, mst_arg, params, vcmt, shape, parallel, maxsig, nsig, pthresh,
                   obs, span, mst, res, unmasked, ppc, row, col, ind,
                   default_no_samples, ret, iters, ndecomp, hist>>
    /\ UNCHANGED mpiVars

\* itertools.product(range(rows), range(cols)): the pixel of task t
TaskPixel(t, shape_) == <<((t - 1) \div shape_[2]) + 1, ((t - 1) % shape_[2]) + 1>>
\* reshape(rows, cols): the task whose result lands in cell p
PixelTaskOf(p, shape_) == (p[1] - 1) * shape_[2] + p[2]

\* lines 62-64: the pool runs the task of one pixel; the triple is a tuple of
\* float64 and an int, which np.array(res) at line 65 holds as float64
PixelTask(t) ==
    /\ pc = "pixels"
    /\ t \notin DOMAIN res
    /\ LET Result(r) == [exc |-> r.exc,
                          val |-> IF r.exc # None THEN <<>>
                                  ELSE <<r.triple[1], r.triple[2], Int2Val(r.triple[3])>>]
           Run(p) == Result(stack_rate_by_pixel(p[1], p[2], mst, nsig, obs, pthresh, span, vcmt))
       IN  res' = res @@ (t :> Run(TaskPixel(t, shape)))
    /\ UNCHANGED <<ifgs, mst_arg, params, vcmt, pc, shape, parallel, maxsig, nsig, pthresh,
                   obs, span, mst, rate, error, samples, unmasked, ppc, row, col, ind,
                   default_no_samples, ret, iters, ndecomp, hist>>
    /\ UNCHANGED mpiVars

\* lines 65-69: res[:, 0].reshape(rows, cols), ..
PixelsAssemble ==
    /\ pc = "pixels"
    /\ DOMAIN res = 1..(shape[1] * shape[2])
    /\ \A t \in DOMAIN res : res[t].exc = None
    /\ rate' = [p \in Pixels(shape) |-> res[PixelTaskOf(p, shape)].val[1]]
    /\ error' = [p \in Pixels(shape) |-> res[PixelTaskOf(p, shape)].val[2]]
    /\ samples' = [p \in Pixels(shape) |-> res[PixelTaskOf(p, shape)].val[3]]
    /\ pc' = "mask"
    /\ UNCHANGED <<ifgs, mst_arg, params, vcmt, shape, parallel, maxsig, nsig, pthresh,
                   obs, span, mst, res, unmasked, ppc, row, col, ind,
                   default_no_samples, ret, iters, ndecomp, hist>>
    /\ UNCHANGED mpiVars

\* joblib hands the exception of a task to the caller of Parallel(..)(..)
PoolRaise ==
    /\ pc \in {"rows", "pixels"}
    /\ \E t \in DOMAIN res :
          /\ res[t].exc # None
          /\ ret' = [exc |-> res[t].exc, triple |-> <<>>]
    /\ pc' = "raised"
    /\ UNCHANGED <<ifgs, mst_arg, params, vcmt, shape, parallel, maxsig, nsig, pthresh,
                   obs, span, mst, rate, error, samples, res, unmasked, ppc, row, col, ind,
                   default_no_samples, iters, ndecomp, hist>>
    /\ UNCHANGED mpiVars

\* lines 77-78: mask = ~isnan(error); mask[mask] &= error[mask] > maxsig
MaxSigmaMask(error_, maxsig_) ==
    [p \in DOMAIN error_ |-> ~isnan(error_[p]) /\ GtVal(error_[p], maxsig_)]

\* a variant of MaskedRate that leaves the rate raster alone
MaskedRateSkipped(rate_, mask) == rate_

\* line 79: rate[mask] = nan
MaskedRate(rate_, mask) == [p \in DOMAIN rate_ |-> IF mask[p] THEN NaN ELSE rate_[p]]
\* line 80: error[mask] = nan
MaskedError(error_, mask) == [p \in DOMAIN error_ |-> IF mask[p] THEN NaN ELSE error_[p]]
\* a variant of MaskedSamples that runs the assignment of line 81
MaskedSamplesToo(samples_, mask) == [p \in DOMAIN samples_ |-> IF mask[p] THEN NaN ELSE samples_[p]]

\* line 81, a comment: samples is not assigned
MaskedSamples(samples_, mask) == samples_

\* lines 75-83
MaxSigmaMasking ==
    /\ pc = "mask"
    /\ unmasked' = [rate |-> rate, error |-> error, samples |-> samples]
    /\ LET mask == MaxSigmaMask(error, maxsig)
       IN  /\ rate' = MaskedRate(rate, mask)
           /\ error' = MaskedError(error, mask)
           /\ samples' = MaskedSamples(samples, mask)
    /\ pc' = "done"
    /\ UNCHANGED <<ifgs, mst_arg, params, vcmt, shape, parallel, maxsig, nsig, pthresh,
                   obs, span, mst, res, ppc, row, col, ind,
                   default_no_samples, ret, iters, ndecomp, hist>>
    /\ UNCHANGED mpiVars

\* the phase of a cell: missing, or MaxPhase
PhaseValues == {NaN, Int2Val(MaxPhase)}
\* max-sigma thresholds
MaxSigs == {1, 2}

\* The arguments of stack_rate.  One pixel, study, takes every column of phases
\* and, when the caller supplies mst, every column of mask bits; every other
\* pixel holds the same phase nb in all layers, with its mask bits set.
Init ==
    /\ \E shp \in Shapes, study \in (1..2) \X (1..2), nb \in PhaseValues,
          column \in [1..NLayers -> PhaseValues], supplied \in BOOLEAN,
          bits \in [1..NLayers -> BOOLEAN] :
          /\ study \in Pixels(shp)
          /\ ~supplied => \A k \in 1..NLayers : bits[k]
          /\ ifgs = [k \in 1..NLayers |->
                       [phase_data |-> [p \in Pixels(shp) |-> IF p = study THEN column[k] ELSE nb],
                        shape |-> shp,
                        time_span |-> 1]]
          /\ mst_arg = IF supplied
                       THEN [none |-> FALSE,
                             a |-> [k \in 1..NLayers |-> [p \in Pixels(shp) |->
                                      IF p = study THEN bits[k] ELSE TRUE]]]
                       ELSE NoMst
    /\ params \in [parallel : {0, 1, 2}, nsig : {3}, maxsig : MaxSigs, pthresh : 0..NLayers]
    /\ vcmt \in {VcmHetero(NLayers), VcmCorrelated(NLayers)}
    /\ pc = "start"
    /\ shape = <<0, 0>> /\ parallel = 0 /\ maxsig = 0 /\ nsig = 0 /\ pthresh = 0
    /\ obs = <<>> /\ span = <<>> /\ mst = <<>>
    /\ rate = <<>> /\ error = <<>> /\ samples = <<>> /\ res = <<>> /\ unmasked = <<>>
    /\ ppc = "-" /\ row = 0 /\ col = 0
    /\ ind = <<>> /\ default_no_samples = 0 /\ ret = NoReturn
    /\ iters = 0 /\ ndecomp = 0 /\ hist = <<>>
    /\ MpiIdle

Next ==
    \/ StackSetup
    \/ SerialPixel
    \/ \E r \in 1..shape[1] : RowTask(r)
    \/ RowsAssemble
    \/ \E t \in 1..(shape[1] * shape[2]) : PixelTask(t)
    \/ PixelsAssemble
    \/ PoolRaise
    \/ MaxSigmaMasking

Spec == Init /\ [][Next]_vars

NextPixel == PixelEnter \/ PixelBody \/ PixelDummy

SpecPixel == InitPixel /\ [][NextPixel]_vars

\* every root the estimator takes on these inputs is rational
ExactArithmetic == ret.exc # "Inexact"

(***************************************************************************)
(* Properties of _stack_rate_by_pixel (SpecPixel)                          *)
(***************************************************************************)
\* the number of True entries of the mask at the pixel
InitialCount == Cardinality({k \in DOMAIN mst : mst[k][<<row, col>>]})
\* the call has ended with the triple of line 181
Converged == ppc = "returned" /\ hist # <<>> /\ ~hist[Len(hist)].rejected
\* the call has ended with the triple of line 183 after at least one rejection
Exhausted == ppc = "returned" /\ hist # <<>> /\ hist[Len(hist)].rejected
\* the active set that followed pass i of the body
IndAfter(i) == IF i < Len(hist) THEN hist[i + 1].ind ELSE ind
\* some / no whitened residual of pass i is greater than nsig
SomeAbove(i) == \E j \in 1..Len(hist[i].wr) : RGt(hist[i].wr[j], RInt(nsig))
\* the first position holding the largest whitened residual of pass i
FirstLargest(i) ==
    CHOOSE p \in 1..Len(hist[i].wr) :
        /\ \A j \in 1..Len(hist[i].wr) : ~RGt(hist[i].wr[j], hist[i].wr[p])
        /\ \A j \in 1..(p - 1) : RGt(hist[i].wr[p], hist[i].wr[j])
\* that largest residual is held by more than one position
Tied(i) == \E j \in 1..Len(hist[i].wr) : j # FirstLargest(i) /\ hist[i].wr[j] = hist[i].wr[FirstLargest(i)]

\* C1: a pixel whose mask selects fewer than pthresh observations gets
\* (NaN, NaN, that count), its loop body never runs and cholesky is never
\* called for it.
C1_TooFewObservations ==
    (ppc # "enter" /\ InitialCount < pthresh) =>
        /\ iters = 0 /\ ndecomp = 0 /\ hist = <<>>
        /\ ppc # "raised"
        /\ ppc = "returned" => ret = [exc |-> None, triple |-> <<NaN, NaN, InitialCount>>]

\* C1's case: some observations, fewer than pthresh, and the call has returned
C1_Witness == ppc = "returned" /\ InitialCount > 0 /\ InitialCount < pthresh

\* C2, first part: a rejecting pass removes exactly one element of ind
C2_Decrease ==
    \A i \in 1..Len(hist) : hist[i].rejected => Len(IndAfter(i)) = Len(hist[i].ind) - 1
\* C2, second part: the body runs at most initial_count - pthresh + 1 times
C2_Bound ==
    ppc # "enter" =>
        iters <= (IF default_no_samples - pthresh + 1 > 0 THEN default_no_samples - pthresh + 1 ELSE 0)
\* C2, third part: a pass that does not reject returns, so that the call ends
\* Converged or Exhausted (or with too few observations from the start)
C2_Ends == pthresh >= 1 => ppc # "raised"

\* C2: the rejection loop terminates: each rejecting pass removes exactly one
\* element of ind, each other pass returns, and the body runs at most
\* initial_count - pthresh + 1 times before the call ends Converged or
\* Exhausted.
C2_LoopTerminates == C2_Decrease /\ C2_Bound /\ C2_Ends

\* C3: when rejections bring ind below pthresh, the triple returned is
\* (NaN, NaN, original_count), the size of the active set before any
\* rejection and not the size it has shrunk to.
C3_ExhaustedCount ==
    Exhausted =>
        /\ ret = [exc |-> None, triple |-> <<NaN, NaN, InitialCount>>]
        /\ InitialCount = Len(hist[1].ind)
        /\ Len(ind) = InitialCount - Len(hist)
        /\ Len(ind) < pthresh

\* C3's case: the call returned after a rejection left too few observations
C3_Witness == Exhausted /\ Len(ind) > 0

\* C4: the call converges at the first pass whose largest whitened residual
\* is not greater than nsig (at equality too), every earlier pass having
\* rejected, and the sample count returned is the size of the active set at
\* that pass: the initial count less the number of rejections.
C4_ConvergesAtFirstFit ==
    /\ \A i \in 1..Len(hist) : hist[i].rejected <=> SomeAbove(i)
    /\ Converged =>
          /\ \A i \in 1..(Len(hist) - 1) : hist[i].rejected
          /\ ret.exc = None
          /\ ret.triple[3] = Len(hist[Len(hist)].ind)
          /\ ret.triple[3] = InitialCount - (Len(hist) - 1)
          /\ ~isnan(ret.triple[1])

\* C4's case: one rejection, then a pass whose largest residual equals nsig
C4_Witness ==
    /\ Converged
    /\ Len(hist) = 2
    /\ \E j \in 1..Len(hist[2].wr) : hist[2].wr[j] = RInt(nsig)

\* C5: a rejecting pass removes from ind the element at the first position
\* holding the largest whitened residual and keeps the others in their order.
C5_RejectsFirstLargest ==
    \A i \in 1..Len(hist) :
        hist[i].rejected => IndAfter(i) = Without(hist[i].ind, FirstLargest(i))

\* C5's case: a rejecting pass in which two positions tie for the maximum
C5_Witness == \E i \in 1..Len(hist) : hist[i].rejected /\ Tied(i)

(***************************************************************************)
(* Properties of stack_rate (Spec)                                         *)
(***************************************************************************)
\* the input phase of layer k at pixel p
Phase(k, p) == ifgs[k].phase_data[p]
\* cholesky (line 147 or 171) refuses the VCM submatrix of the observations the
\* mask selects at pixel p
CholeskyFailsAt(p) ==
    Estimate(nonzero([k \in DOMAIN mst |-> mst[k][p]], Len(mst)), p[1], p[2], obs, span, vcmt).exc
        = "LinAlgError"

\* C6: a pixel on which cholesky fails is absorbed: stack_rate completes, the
\* pixel holds NaN in rate and error, and no exception leaves stack_rate.
C6_FailureAbsorbed ==
    /\ params.pthresh >= 1 => pc # "raised"
    /\ pc = "done" =>
          \A p \in Pixels(shape) :
              (Len(nonzero([k \in DOMAIN mst |-> mst[k][p]], Len(mst))) >= pthresh /\ CholeskyFailsAt(p))
                  => isnan(rate[p]) /\ isnan(error[p])

\* C7: a pixel all of whose observations are NaN gets (NaN, NaN, 0), whether
\* mst is None or supplied, and every pixel gets what the estimator gives on
\* its own observations.
C7_AllNaNPixel ==
    (pc = "done" /\ pthresh >= 1) =>
        \A p \in Pixels(shape) :
            /\ (\A k \in DOMAIN ifgs : isnan(Phase(k, p))) =>
                  /\ isnan(unmasked.rate[p]) /\ isnan(unmasked.error[p])
                  /\ unmasked.samples[p] = Int2Val(0)
            /\ LET own == stack_rate_by_pixel(p[1], p[2], mst, nsig, obs, pthresh, span, vcmt).triple
               IN  /\ unmasked.rate[p] \in {own[1], ToFloat32(own[1])}
                   /\ unmasked.error[p] \in {own[2], ToFloat32(own[2])}
                   /\ unmasked.samples[p] = Int2Val(own[3])

\* C8: after _stack_setup the mask selects no missing observation: a NaN
\* input phase has its mask entry False, and with mst None the entry is True
\* exactly when the phase is not NaN.
C8_MaskExcludesNaN ==
    pc # "start" =>
        \A k \in DOMAIN ifgs : \A p \in Pixels(shape) :
            /\ isnan(Phase(k, p)) => ~mst[k][p]
            /\ mst_arg.none => (mst[k][p] <=> ~isnan(Phase(k, p)))

\* C9: after the masking every pixel whose error was not NaN and greater than
\* maxsig holds NaN in rate and in error, and no pixel is left with an error
\* that is not NaN and greater than maxsig.
C9_MaxSigmaMasked ==
    pc = "done" =>
        \A p \in Pixels(shape) :
            /\ (~isnan(unmasked.error[p]) /\ GtVal(unmasked.error[p], maxsig))
                  => isnan(rate[p]) /\ isnan(error[p])
            /\ ~(~isnan(error[p]) /\ GtVal(error[p], maxsig))

\* C9's case: the masking ran on a raster holding an error above maxsig
C9_Witness ==
    /\ pc = "done"
    /\ \E p \in Pixels(shape) : ~isnan(unmasked.error[p]) /\ GtVal(unmasked.error[p], maxsig)

\* C10: the masking leaves samples as it was at every pixel, and rate and
\* error as they were at every pixel whose error was NaN or not greater than
\* maxsig.
C10_MaskingFrame ==
    pc = "done" =>
        /\ samples = unmasked.samples
        /\ \A p \in Pixels(shape) :
              (isnan(unmasked.error[p]) \/ ~GtVal(unmasked.error[p], maxsig))
                  => rate[p] = unmasked.rate[p] /\ error[p] = unmasked.error[p]

\* C10's case: the masking hit one pixel, whose sample count is not NaN, and
\* passed over another whose error is a number
C10_Witness ==
    /\ pc = "done"
    /\ \E p, q \in Pixels(shape) :
          /\ isnan(error[p]) /\ ~isnan(unmasked.error[p]) /\ ~isnan(samples[p])
          /\ ~isnan(error[q]) /\ error[q] = unmasked.error[q]

\* the triple the estimator gives for pixel p of the frame of stack_rate
TripleAt(p) == stack_rate_by_pixel(p[1], p[2], mst, nsig, obs, pthresh, span, vcmt).triple
\* the rasters of the serial loop (lines 70-73), whatever params[cf.PARALLEL] is
SerialRate == [p \in Pixels(shape) |-> ToFloat32(TripleAt(p)[1])]
SerialError == [p \in Pixels(shape) |-> ToFloat32(TripleAt(p)[2])]
SerialSamples == [p \in Pixels(shape) |-> ToFloat32(Int2Val(TripleAt(p)[3]))]

\* C11: stack_rate returns the same rate, error and samples rasters with
\* parallel = 0, 1 and 2, in whatever order the pool runs its tasks: each
\* cell holds what the serial loop stores for its pixel.
C11_ModesAgree ==
    pc = "done" =>
        /\ unmasked.rate = SerialRate
        /\ unmasked.error = SerialError
        /\ unmasked.samples = SerialSamples
        /\ rate = MaskedRate(SerialRate, MaxSigmaMask(SerialError, maxsig))
        /\ error = MaskedError(SerialError, MaxSigmaMask(SerialError, maxsig))
        /\ samples = SerialSamples

\* The call of the estimator on pixel p alone: a raster of one pixel holding
\* the phases and the mask entries of p, set up as _stack_setup does.
OwnPhases(p) == [k \in DOMAIN ifgs |-> [phase_data |-> (<<1, 1>> :> Phase(k, p))]]
OwnMst(p) ==
    IF mst_arg.none THEN DefaultMst(ZeroFilled(OwnPhases(p)))
    ELSE UpdatedMst([k \in DOMAIN ifgs |-> (<<1, 1>> :> mst_arg.a[k][p])], ZeroFilled(OwnPhases(p)))
OwnResult(p) ==
    stack_rate_by_pixel(1, 1, OwnMst(p), params.nsig, ZeroFilled(OwnPhases(p)), params.pthresh,
                        [k \in DOMAIN ifgs |-> ifgs[k].time_span], vcmt)
\* the cell values v1, v2, v3 are the triple of r, as float64 or cast to float32
HoldsTriple(v1, v2, v3, r) ==
    /\ r.exc = None
    /\ v1 \in {r.triple[1], ToFloat32(r.triple[1])}
    /\ v2 \in {r.triple[2], ToFloat32(r.triple[2])}
    /\ v3 = Int2Val(r.triple[3])

\* C12: the triple of a pixel depends on the observations and the mask
\* entries of that pixel alone (and on the time spans, the VCM, nsig and
\* pthresh): every result a task has produced and every cell that has been
\* assigned holds what the estimator gives on that pixel taken by itself,
\* whatever the other pixels hold and whatever tasks ran before.
C12_PixelsIndependent ==
    /\ pc = "serial" =>
          \A p \in Pixels(shape) :
              rate[p].k # "empty" => HoldsTriple(rate[p], error[p], samples[p], OwnResult(p))
    /\ pc = "rows" =>
          \A r \in DOMAIN res : \A c \in 1..Len(res[r].val) :
              HoldsTriple(res[r].val[c][1], res[r].val[c][2], res[r].val[c][3], OwnResult(<<r, c>>))
    /\ pc = "pixels" =>
          \A t \in DOMAIN res :
              /\ res[t].exc = OwnResult(TaskPixel(t, shape)).exc
              /\ res[t].exc = None =>
                    HoldsTriple(res[t].val[1], res[t].val[2], res[t].val[3], OwnResult(TaskPixel(t, shape)))
    /\ pc = "mask" =>
          \A p \in Pixels(shape) : HoldsTriple(rate[p], error[p], samples[p], OwnResult(p))
    /\ pc = "done" =>
          \A p \in Pixels(shape) :
              HoldsTriple(unmasked.rate[p], unmasked.error[p], unmasked.samples[p], OwnResult(p))

\* C12's case: a call has returned rasters in which two pixels with different
\* phases and different mask entries hold different rates
C12_Witness ==
    /\ pc = "done"
    /\ \E p, q \in Pixels(shape) :
          /\ \E k \in DOMAIN ifgs : Phase(k, p) # Phase(k, q)
          /\ \E k \in DOMAIN mst : mst[k][p] # mst[k][q]
          /\ ~isnan(unmasked.rate[p]) /\ ~isnan(unmasked.rate[q])
          /\ unmasked.rate[p] # unmasked.rate[q]

\* the estimator has been called for some pixel
EstimatorInvoked ==
    \/ pc \in {"mask", "done", "raised"}
    \/ res # <<>>
    \/ pc = "serial" /\ \E p \in Pixels(shape) : rate[p].k # "empty"

\* C13: with an invalid threshold (pthresh < 1) stack_rate fails before the
\* estimator is called for any pixel, and returns no rasters.
C13_InvalidConfigRejected ==
    params.pthresh < 1 => ~EstimatorInvoked

(***************************************************************************)
(* run_pyrate_pypar.py: main, lines 22-79, and mpi_mst_calc, lines 83-120. *)
(* Ranks and tile indices count from 0, as in the code.  The modules       *)
(* pyrate.nci.parallel (barrier, send, receive, calc_indices) and          *)
(* pyrate.mst (setup_tiles, mst_multiprocessing_map) are not part of the   *)
(* sources at hand; they are modelled from the specification.              *)
(***************************************************************************)
\* line 19
MASTER_PROCESS == 0

Procs == 0..(num_processors - 1)

\* mst.setup_tiles(shape, processes): a grid of `processes` bands of rows by
\* two bands of columns, tile t being band t \div 2 of the rows and band t % 2
\* of the columns; top_lefts[t] = <<r0, c0>> and bottom_rights[t] = <<r1, c1>>
\* bound the rows r0 .. r1-1 and the columns c0 .. c1-1 (counted from 0).
setup_tiles(shape_, processes) ==
    [top_lefts |-> [t \in 0..(2 * processes - 1) |->
                       <<((t \div 2) * shape_[1]) \div processes, ((t % 2) * shape_[2]) \div 2>>],
     bottom_rights |-> [t \in 0..(2 * processes - 1) |->
                       <<(((t \div 2) + 1) * shape_[1]) \div processes,
                         (((t % 2) + 1) * shape_[2]) \div 2>>],
     no_tiles |-> 2 * processes]

\* parallel.calc_indices(no_tiles) on process rank of size: the rank's block
\* of the tile indices 0 .. no_tiles-1, ascending
RECURSIVE Range(_, _)
Range(lo, hi) == IF lo >= hi THEN <<>> ELSE <<lo>> \o Range(lo + 1, hi)
calc_indices(rank, size, no_tiles) ==
    Range((rank * no_tiles) \div size, ((rank + 1) * no_tiles) \div size)

\* the value mst.mst_multiprocessing_map computes at pixel p (rows and columns
\* counted from 1)
MstValue(p) == 1 + ((p[1] + p[2]) % 2)

\* pixel p lies in the tile bounded by top_left and bottom_right
InTile(p, top_left, bottom_right) ==
    /\ top_left[1] < p[1] /\ p[1] <= bottom_right[1]
    /\ top_left[2] < p[2] /\ p[2] <= bottom_right[2]

\* mst.mst_multiprocessing_map(process_top_lefts, process_bottom_rights, ..,
\* shape, ..): a raster of the whole shape holding the values of the pixels
\* of the tiles given and 0 elsewhere
mst_multiprocessing_map(process_top_lefts, process_bottom_rights, shape_) ==
    [p \in Pixels(shape_) |->
        IF \E k \in 1..Len(process_top_lefts) :
              InTile(p, process_top_lefts[k], process_bottom_rights[k])
        THEN MstValue(p) ELSE 0]

\* a variant of LocalTiles that sizes the grid by the rank
LocalTilesByRank(MPI_myID, shape_, num_processors_) == setup_tiles(shape_, MPI_myID + 1)

\* lines 87-88: top_lefts, bottom_rights, no_tiles of a process
LocalTiles(MPI_myID, shape_, num_processors_) == setup_tiles(shape_, num_processors_)

\* a variant of LocalIndices that leaves out the last tile
LocalIndicesShort(MPI_myID, num_processors_, no_tiles) ==
    calc_indices(MPI_myID, num_processors_, no_tiles - 1)

\* line 90: process_indices of a process
LocalIndices(MPI_myID, num_processors_, no_tiles) ==
    calc_indices(MPI_myID, num_processors_, no_tiles)

\* a variant of AfterMap in which a worker does not call the barrier
AfterMapNoBarrier(MPI_myID) == IF MPI_myID # MASTER_PROCESS THEN "send" ELSE "barrier103"

\* line 103: what follows mst_multiprocessing_map
AfterMap(MPI_myID) == "barrier103"

\* a variant of IsSender in which the master sends as well
IsSenderAll(MPI_myID) == TRUE

\* line 105: if MPI_myID != MASTER_PROCESS
IsSender(MPI_myID) == MPI_myID # MASTER_PROCESS

\* a variant of SendTag: the default tag of the library
SendTagDefault(MPI_myID) == 1

\* line 106: tag=MPI_myID
SendTag(MPI_myID) == MPI_myID

\* a variant of Merge that keeps the last raster received
MergeOverwrite(result_, result_remote_processes) == result_remote_processes

\* line 115: result += result_remote_processes
Merge(result_, result_remote_processes) ==
    [p \in DOMAIN result_ |-> result_[p] + result_remote_processes[p]]

\* the message of a worker, line 106
Message(MPI_myID) ==
    [src |-> MPI_myID, dst |-> MASTER_PROCESS, tag |-> SendTag(MPI_myID),
     data |-> result_process[MPI_myID]]

\* parallel.receive(source, tag): the messages a receive may take; tag -1
\* stands for any tag
Matches(m, source, tag) ==
    /\ m.dst = MASTER_PROCESS /\ m.src = source
    /\ (tag = -1 \/ m.tag = tag)

Alive(p) == p \in Procs /\ p \notin crashed

\* lines 24-67: the start of main (the master writes the log) up to the call
\* of parallel.barrier()
MainStart(p) ==
    /\ Alive(p) /\ mpc[p] = "start"
    /\ barrier' = [barrier EXCEPT !.line67 = @ \cup {p}]
    /\ mpc' = [mpc EXCEPT ![p] = "barrier67"]
    /\ UNCHANGED <<stackRateVars, shape, num_processors, eager, tiles, process_indices,
                   result_process, result, loop_i, net, crashed, sent, received>>

\* line 67: parallel.barrier() returns once every process has called it
MainBarrier(p) ==
    /\ Alive(p) /\ mpc[p] = "barrier67"
    /\ barrier.line67 = Procs
    /\ mpc' = [mpc EXCEPT ![p] = "tiles"]
    /\ UNCHANGED <<stackRateVars, shape, num_processors, eager, tiles, process_indices,
                   result_process, result, loop_i, net, barrier, crashed, sent, received>>

\* lines 70-78 and 85-94: mpi_mst_calc is entered; the tiles and the indices
CalcTiles(p) ==
    /\ Alive(p) /\ mpc[p] = "tiles"
    /\ tiles' = [tiles EXCEPT ![p] = LocalTiles(p, shape, num_processors)]
    /\ process_indices' =
          [process_indices EXCEPT ![p] = LocalIndices(p, num_processors, tiles'[p].no_tiles)]
    /\ mpc' = [mpc EXCEPT ![p] = "map"]
    /\ UNCHANGED <<stackRateVars, shape, num_processors, eager,
                   result_process, result, loop_i, net, barrier, crashed, sent, received>>

\* lines 91-102: process_top_lefts, process_bottom_rights and result_process
MapTiles(p) ==
    /\ Alive(p) /\ mpc[p] = "map"
    /\ result_process' = [result_process EXCEPT ![p] =
          mst_multiprocessing_map(
              [k \in 1..Len(process_indices[p]) |-> tiles[p].top_lefts[process_indices[p][k]]],
              [k \in 1..Len(process_indices[p]) |-> tiles[p].bottom_rights[process_indices[p][k]]],
              shape)]
    /\ mpc' = [mpc EXCEPT ![p] = "computed"]
    /\ UNCHANGED <<stackRateVars, shape, num_processors, eager, tiles, process_indices,
                   result, loop_i, net, barrier, crashed, sent, received>>

\* line 103: the call of parallel.barrier()
CalcBarrierCall(p) ==
    /\ Alive(p) /\ mpc[p] = "computed"
    /\ mpc' = [mpc EXCEPT ![p] = AfterMap(p)]
    /\ barrier' = IF mpc'[p] = "barrier103" THEN [barrier EXCEPT !.line103 = @ \cup {p}]
                  ELSE barrier
    /\ UNCHANGED <<stackRateVars, shape, num_processors, eager, tiles, process_indices,
                   result_process, result, loop_i, net, crashed, sent, received>>

\* line 103: parallel.barrier() returns; lines 105 and 109-112
CalcBarrier(p) ==
    /\ Alive(p) /\ mpc[p] = "barrier103"
    /\ barrier.line103 = Procs
    /\ IF IsSender(p)
       THEN /\ mpc' = [mpc EXCEPT ![p] = "send"]
            /\ UNCHANGED <<result, loop_i>>
       ELSE /\ mpc' = [mpc EXCEPT ![p] = "receive"]
            /\ result' = result_process[p]
            /\ loop_i' = 1
    /\ UNCHANGED <<stackRateVars, shape, num_processors, eager, tiles, process_indices,
                   result_process, net, barrier, crashed, sent, received>>

\* line 106: parallel.send(result_process, destination=MASTER_PROCESS, tag=MPI_myID)
Send(p) ==
    /\ Alive(p) /\ mpc[p] = "send"
    /\ net' = net \cup {Message(p)}
    /\ sent' = Append(sent, Message(p))
    /\ mpc' = [mpc EXCEPT ![p] = IF eager THEN "finalize" ELSE "sending"]
    /\ UNCHANGED <<stackRateVars, shape, num_processors, eager, tiles, process_indices,
                   result_process, result, loop_i, barrier, crashed, received>>

\* line 106, unbuffered: the send returns when the master has received the message
SendReturns(p) ==
    /\ Alive(p) /\ mpc[p] = "sending"
    /\ \A m \in net : m.src # p
    /\ mpc' = [mpc EXCEPT ![p] = "finalize"]
    /\ UNCHANGED <<stackRateVars, shape, num_processors, eager, tiles, process_indices,
                   result_process, result, loop_i, net, barrier, crashed, sent, received>>

\* lines 112-115: one pass of the loop; receive(source=i, tag=-1) takes a
\* message of source i with any tag; result is the array result_process
\* (line 110), which += changes in place
Receive ==
    /\ Alive(MASTER_PROCESS) /\ mpc[MASTER_PROCESS] = "receive"
    /\ loop_i < num_processors
    /\ \E m \in net :
          /\ Matches(m, loop_i, -1)
          /\ result' = Merge(result, m.data)
          /\ result_process' = [result_process EXCEPT ![MASTER_PROCESS] = result']
          /\ received' = Append(received, [source |-> loop_i, msg |-> m])
          /\ net' = net \ {m}
    /\ loop_i' = loop_i + 1
    /\ UNCHANGED <<stackRateVars, shape, num_processors, eager, mpc, tiles, process_indices,
                   barrier, crashed, sent>>

\* lines 117-120 and 73-75: the loop has ended; the master returns result
Return ==
    /\ Alive(MASTER_PROCESS) /\ mpc[MASTER_PROCESS] = "receive"
    /\ loop_i >= num_processors
    /\ mpc' = [mpc EXCEPT ![MASTER_PROCESS] = "finalize"]
    /\ UNCHANGED <<stackRateVars, shape, num_processors, eager, tiles, process_indices,
                   result_process, result, loop_i, net, barrier, crashed, sent, received>>

\* line 79: parallel.finalize()
Finalize(p) ==
    /\ Alive(p) /\ mpc[p] = "finalize"
    /\ mpc' = [mpc EXCEPT ![p] = "exit"]
    /\ UNCHANGED <<stackRateVars, shape, num_processors, eager, tiles, process_indices,
                   result_process, result, loop_i, net, barrier, crashed, sent, received>>

\* a process dies where it stands (at most one per run)
Crash(p) ==
    /\ Alive(p) /\ mpc[p] # "exit"
    /\ crashed = {}
    /\ crashed' = {p}
    /\ UNCHANGED <<stackRateVars, shape, num_processors, eager, mpc, tiles, process_indices,
                   result_process, result, loop_i, net, barrier, sent, received>>

InitMpi ==
    /\ num_processors \in 1..MaxProcs
    /\ shape \in MpiShapes
    /\ eager \in BOOLEAN
    /\ mpc = [p \in Procs |-> "start"]
    /\ tiles = [p \in Procs |-> <<>>]
    /\ process_indices = [p \in Procs |-> <<>>]
    /\ result_process = [p \in Procs |-> <<>>]
    /\ result = <<>> /\ loop_i = 0
    /\ net = {} /\ sent = <<>> /\ received = <<>>
    /\ barrier = [line67 |-> {}, line103 |-> {}]
    /\ crashed = {}
    /\ ifgs = <<>> /\ mst_arg = NoMst /\ params = <<>> /\ vcmt = <<>>
    /\ pc = "-" /\ parallel = 0 /\ maxsig = 0 /\ nsig = 0 /\ pthresh = 0
    /\ obs = <<>> /\ span = <<>> /\ mst = <<>>
    /\ rate = <<>> /\ error = <<>> /\ samples = <<>> /\ res = <<>> /\ unmasked = <<>>
    /\ ppc = "-" /\ row = 0 /\ col = 0
    /\ ind = <<>> /\ default_no_samples = 0 /\ ret = NoReturn
    /\ iters = 0 /\ ndecomp = 0 /\ hist = <<>>

NextMpi ==
    \/ \E p \in Procs : MainStart(p)
    \/ \E p \in Procs : MainBarrier(p)
    \/ \E p \in Procs : CalcTiles(p)
    \/ \E p \in Procs : MapTiles(p)
    \/ \E p \in Procs : CalcBarrierCall(p)
    \/ \E p \in Procs : CalcBarrier(p)
    \/ \E p \in Procs : Send(p)
    \/ \E p \in Procs : SendReturns(p)
    \/ Receive
    \/ Return
    \/ \E p \in Procs : Finalize(p)
    \/ \E p \in Procs : Crash(p)

SpecMpi == InitMpi /\ [][NextMpi]_vars

\* the run of main in which no process dies
NextMpiLive ==
    \/ \E p \in Procs : MainStart(p)
    \/ \E p \in Procs : MainBarrier(p)
    \/ \E p \in Procs : CalcTiles(p)
    \/ \E p \in Procs : MapTiles(p)
    \/ \E p \in Procs : CalcBarrierCall(p)
    \/ \E p \in Procs : CalcBarrier(p)
    \/ \E p \in Procs : Send(p)
    \/ \E p \in Procs : SendReturns(p)
    \/ Receive
    \/ Return
    \/ \E p \in Procs : Finalize(p)

\* the steps of process p
ProcessStep(p) ==
    \/ MainStart(p) \/ MainBarrier(p) \/ CalcTiles(p) \/ MapTiles(p)
    \/ CalcBarrierCall(p) \/ CalcBarrier(p) \/ Send(p) \/ SendReturns(p) \/ Finalize(p)
    \/ (p = MASTER_PROCESS /\ (Receive \/ Return))

\* every process is an operating-system process of its own: one that can
\* take a step does so in the end
SpecMpiLive ==
    /\ InitMpi /\ [][NextMpiLive]_vars
    /\ \A p \in 0..(MaxProcs - 1) : WF_vars(ProcessStep(p))

(***************************************************************************)
(* Properties of mpi_mst_calc and main (SpecMpi).                          *)
(***************************************************************************)
Workers == Procs \ {MASTER_PROCESS}
SentBy(p) == {k \in 1..Len(sent) : sent[k].src = p}
Returned == mpc[MASTER_PROCESS] \in {"finalize", "exit"}

\* C14: no process sends more than one message and the master sends none;
\* every message goes to the master and carries the rank of its sender as
\* tag; the j-th receive of the master is the receive from source j and
\* takes the message worker j sent; a worker that has left mpi_mst_calc has
\* sent exactly one message, and a master that has returned has performed
\* exactly one receive for each of the workers 1 .. N-1.
C14_OneMessagePerWorker ==
    /\ \A p \in Procs : Cardinality(SentBy(p)) <= 1
    /\ SentBy(MASTER_PROCESS) = {}
    /\ \A k \in 1..Len(sent) : sent[k].dst = MASTER_PROCESS /\ sent[k].tag = sent[k].src
    /\ Len(received) <= num_processors - 1
    /\ \A j \in 1..Len(received) :
          /\ received[j].source = j
          /\ received[j].msg.src = j /\ received[j].msg.tag = j
          /\ \E k \in SentBy(j) : sent[k] = received[j].msg
    /\ \A p \in Workers : mpc[p] \in {"sending", "finalize", "exit"} => Cardinality(SentBy(p)) = 1
    /\ Returned => /\ Len(received) = num_processors - 1
                   /\ \A p \in Workers : Cardinality(SentBy(p)) = 1

\* the master has returned after receiving from two workers
C14_Witness ==
    /\ num_processors = 3 /\ Returned
    /\ Len(received) = 2 /\ Len(sent) = 2

\* C15: once a message has been sent or received, every process has computed
\* its tiles and called the barrier of line 103, and what the master
\* receives is the complete result of the sender.
C15_BarrierBeforeMerge ==
    (sent # <<>> \/ received # <<>>) =>
        /\ barrier.line103 = Procs
        /\ \A p \in Procs : result_process[p] # <<>>
                            /\ mpc[p] \notin {"start", "barrier67", "tiles", "map", "computed"}
        /\ \A k \in 1..Len(sent) :
              sent[k].data = [q \in Pixels(shape) |->
                                 IF \E t \in 1..Len(process_indices[sent[k].src]) :
                                       InTile(q, tiles[sent[k].src].top_lefts[process_indices[sent[k].src][t]],
                                              tiles[sent[k].src].bottom_rights[process_indices[sent[k].src][t]])
                                 THEN MstValue(q) ELSE 0]
        /\ \A j \in 1..Len(received) : \E k \in 1..Len(sent) : received[j].msg = sent[k]

\* the master has merged the result of a worker while another is yet to send
C15_Witness ==
    /\ num_processors = 3 /\ Len(received) = 1 /\ Len(sent) = 1
    /\ mpc[2] = "send"

\* the master waits in receive(source=loop_i) for a worker that died without
\* sending: no message of that source exists or will ever exist
WaitsForDead ==
    /\ Alive(MASTER_PROCESS) /\ mpc[MASTER_PROCESS] = "receive"
    /\ loop_i < num_processors
    /\ loop_i \in crashed /\ SentBy(loop_i) = {}

\* C16: the master is never left waiting in the receive loop for a worker
\* that died before sending its result; the run ends with a reported failure
\* instead.
C16_DeadWorkerReported == ~WaitsForDead

\* process p has called a barrier that a dead process never called
BlockedInBarrier(p) ==
    /\ Alive(p)
    /\ \/ mpc[p] = "barrier67" /\ crashed \ barrier.line67 # {}
       \/ mpc[p] = "barrier103" /\ crashed \ barrier.line103 # {}

\* process p is in an unbuffered send to a master that died without receiving
BlockedInSend(p) ==
    /\ Alive(p) /\ mpc[p] = "sending"
    /\ MASTER_PROCESS \in crashed
    /\ \E m \in net : m.src = p

\* C17: no process, worker or master, is blocked for good in a barrier, and
\* no worker is blocked for good in its send: the receive loop of the master
\* is the only place where a process can wait without end.
C17_OnlyReceiveBlocks ==
    \A p \in Procs : ~BlockedInBarrier(p) /\ ~BlockedInSend(p)

\* the processes whose tiles hold pixel q
Owners(q) ==
    {p \in Procs : \E t \in 1..Len(process_indices[p]) :
        InTile(q, tiles[p].top_lefts[process_indices[p][t]],
               tiles[p].bottom_rights[process_indices[p][t]])}

\* what one process computes over all the tiles of the grid
SingleProcess(shape_, num_processors_) ==
    mst_multiprocessing_map(
        [k \in 1..(2 * num_processors_) |-> setup_tiles(shape_, num_processors_).top_lefts[k - 1]],
        [k \in 1..(2 * num_processors_) |-> setup_tiles(shape_, num_processors_).bottom_rights[k - 1]],
        shape_)

Derived == {p \in Procs : mpc[p] \notin {"start", "barrier67", "tiles"}}

\* C19: all processes that have derived the partition hold the same tile
\* boundaries and the same number of tiles, and the indices of each agree
\* with the assignment any other process derives for it from its own tiles;
\* the only messages are results sent by workers to the master, none of them
\* before every process has computed its tiles.
C19_PartitionDerivedLocally ==
    /\ \A p \in Derived : \A q \in Derived :
          /\ tiles[p] = tiles[q]
          /\ process_indices[p] = calc_indices(p, num_processors, tiles[q].no_tiles)
    /\ \A m \in net : m.dst = MASTER_PROCESS /\ m.src # MASTER_PROCESS
    /\ \A k \in 1..Len(sent) : sent[k].dst = MASTER_PROCESS /\ sent[k].src # MASTER_PROCESS
    /\ (\E p \in Procs : p \notin Derived \/ mpc[p] = "map") => sent = <<>> /\ net = {}

\* three processes have derived the partition and none has sent anything
C19_Witness ==
    /\ num_processors = 3 /\ Derived = Procs /\ sent = <<>>
    /\ \A p \in Procs : mpc[p] \in {"map", "computed"}

\* the number of times tile index t occurs in the indices of process p
Occurrences(t, p) ==
    Cardinality({k \in 1..Len(process_indices[p]) : process_indices[p][k] = t})

Populated(raster) == \A p \in Pixels(shape) : raster[p].k # "empty"
\* the tasks of the pool
Tasks == IF pc = "rows" \/ parallel = 1 THEN 1..shape[1] ELSE 1..(shape[1] * shape[2])

\* C22: while the pool of a local-parallel mode runs, rate, error and samples
\* are the arrays _stack_setup allocated, with no cell assigned; in every
\* mode the masking starts, and stack_rate returns, only with every cell of
\* the three rasters populated and, in the parallel modes, with the result of
\* every task at hand.
C22_NoPartialVisibility ==
    /\ pc \in {"rows", "pixels"} =>
          rate = EmptyRaster(shape) /\ error = EmptyRaster(shape) /\ samples = EmptyRaster(shape)
    /\ pc \in {"mask", "done"} =>
          /\ Populated(rate) /\ Populated(error) /\ Populated(samples)
          /\ parallel \in {1, 2} => DOMAIN res = Tasks
    /\ pc = "done" =>
          Populated(unmasked.rate) /\ Populated(unmasked.error) /\ Populated(unmasked.samples)

\* one of the two tasks of the pool has completed and the other has not
C22_Witness ==
    /\ pc \in {"rows", "pixels"}
    /\ Cardinality(DOMAIN res) = 1 /\ Cardinality(Tasks) = 2

(***************************************************************************)
(* Further properties of _stack_rate_by_pixel (SpecPixel).                 *)
(***************************************************************************)
\* the layers the mask selects for the pixel
InitialSet == {k \in DOMAIN mst : mst[k][<<row, col>>]}
\* the layers of a sequence of indices
Layers(ind_) == {ind_[i] : i \in 1..Len(ind_)}

\* C23: a converged call returns a sample count between pthresh and the
\* initial count, which is the size of the active set it converged on, a
\* subset of the layers the mask selects; and a call that starts with exactly
\* pthresh active observations runs the loop body.
C23_ConvergedCountBounds ==
    /\ Converged =>
          /\ pthresh <= ret.triple[3] /\ ret.triple[3] <= InitialCount
          /\ ret.triple[3] = Cardinality(Layers(ind))
          /\ Layers(ind) \subseteq InitialSet
          /\ \A i \in 1..Len(hist) : Layers(hist[i].ind) \subseteq InitialSet
    /\ (ppc \in {"returned", "raised"} /\ InitialCount = pthresh) => iters >= 1

\* a call that starts with exactly pthresh observations, two or more, converges
C23_Witness ==
    /\ Converged /\ InitialCount = pthresh /\ pthresh >= 2
    /\ ret.triple[3] = pthresh

\* C24: the loop body never runs on an empty active set, whatever pthresh and
\* the mask: no pass starts from an empty ind, no call ends with the
\* ValueError of line 143, and a pixel with no active observation returns
\* (NaN, NaN, 0) without entering the body.
C24_NeverOnEmptySet ==
    /\ \A i \in 1..Len(hist) : hist[i].ind # <<>>
    /\ ret.exc # "ValueError"
    /\ (ppc # "enter" /\ InitialCount = 0) =>
          /\ iters = 0 /\ ppc # "raised"
          /\ ppc = "returned" => ret = [exc |-> None, triple |-> <<NaN, NaN, 0>>]

(***************************************************************************)
(* Progress of main when no process dies (SpecMpiLive).                    *)
(***************************************************************************)
\* every process has passed both barriers and left main through finalize,
\* every worker has sent its message and the master has received them all
RunComplete ==
    /\ \A p \in Procs : mpc[p] = "exit"
    /\ barrier.line67 = Procs /\ barrier.line103 = Procs
    /\ \A p \in Workers : Cardinality(SentBy(p)) = 1
    /\ Len(received) = num_processors - 1
    /\ net = {}

\* C25: when no process dies, every run of 1 .. MaxProcs processes, with
\* buffered or unbuffered sends and under every interleaving, reaches the
\* state where all processes have passed both barriers, every send has
\* completed, the master has completed its N-1 receives and every process
\* has called finalize; short of that state some process can take a step.
C25_RunCompletes ==
    /\ [](RunComplete \/ ENABLED NextMpiLive)
    /\ <>RunComplete

\* three processes with unbuffered sends have all left main
C25_Witness ==
    /\ RunComplete /\ num_processors = 3 /\ ~eager

====
